---- MODULE Spec2Model ----
(***************************************************************************)
(* Model of the transaction risk-evaluation and autonomous-signing         *)
(* pipeline: the address reputation cache (utils/addressLists.ts), the     *)
(* risk checks and their aggregation (securityService.ts, agent.ts), the   *)
(* batch loop over the pending transactions of a Safe and the HTTP handler *)
(* that runs it for a request (index.ts).                                  *)
(*                                                                         *)
(* JavaScript strings that the code inspects character by character        *)
(* (addresses, call data, the decimal value) are sequences of one-char     *)
(* strings; strings the code only passes around or compares as a whole     *)
(* (messages, decoded parameter values) are TLA+ strings.                  *)
(***************************************************************************)
EXTENDS Integers, Sequences, FiniteSets, TLC

(***************************************************************************)
(* String primitives of the JavaScript runtime.                            *)
(***************************************************************************)
Rep(c, n) == [i \in 1..n |-> c]

Min(a, b) == IF a < b THEN a ELSE b

UpperChars ==
  <<"A", "B", "C", "D", "E", "F", "G", "H", "I", "J", "K", "L", "M",
    "N", "O", "P", "Q", "R", "S", "T", "U", "V", "W", "X", "Y", "Z">>

LowerChars ==
  <<"a", "b", "c", "d", "e", "f", "g", "h", "i", "j", "k", "l", "m",
    "n", "o", "p", "q", "r", "s", "t", "u", "v", "w", "x", "y", "z">>

\* the lower-case letter of each upper-case letter
lowerOf ==
  [c \in {UpperChars[k] : k \in 1..Len(UpperChars)} |->
     LowerChars[CHOOSE k \in 1..Len(UpperChars) : UpperChars[k] = c]]

LowerChar(c) == IF c \in DOMAIN lowerOf THEN lowerOf[c] ELSE c

\* String.prototype.toLowerCase
toLowerCase(s) == [i \in 1..Len(s) |-> LowerChar(s[i])]

\* String.prototype.slice(a, b) for 0 <= a <= b
Slice(s, a, b) == SubSeq(s, a + 1, Min(b, Len(s)))

\* String.prototype.includes(sub): a case-sensitive substring search
Includes(s, sub) ==
  \E i \in 0..(Len(s) - Len(sub)) : SubSeq(s, i + 1, i + Len(sub)) = sub

\* RegExp.prototype.test for /(w1|w2|...)/i, every wi a literal word
RegexTestI(words, s) == \E w \in words : Includes(toLowerCase(s), w)

(***************************************************************************)
(* BigInt(string) and BigInt comparison.  A BigInt is a sign and a         *)
(* little-endian sequence of base-10^9 limbs, so that wei amounts (10^18   *)
(* and more) are compared exactly.                                         *)
(***************************************************************************)
Digits == {"0", "1", "2", "3", "4", "5", "6", "7", "8", "9"}

DigitVal(c) ==
  CASE c = "0" -> 0 [] c = "1" -> 1 [] c = "2" -> 2 [] c = "3" -> 3
    [] c = "4" -> 4 [] c = "5" -> 5 [] c = "6" -> 6 [] c = "7" -> 7
    [] c = "8" -> 8 [] c = "9" -> 9

RECURSIVE DecVal(_)
DecVal(s) ==
  IF s = <<>> THEN 0
  ELSE DecVal(SubSeq(s, 1, Len(s) - 1)) * 10 + DigitVal(s[Len(s)])

RECURSIVE Limbs(_)
Limbs(s) ==
  IF Len(s) <= 9 THEN <<DecVal(s)>>
  ELSE <<DecVal(SubSeq(s, Len(s) - 8, Len(s)))>> \o Limbs(SubSeq(s, 1, Len(s) - 9))

IsDigits(s) == \A i \in 1..Len(s) : s[i] \in Digits

\* BigInt(s): a SyntaxError for anything but an optionally signed decimal
\* numeral (the empty string is 0n)
BigInt(s) ==
  IF IsDigits(s) THEN [ok |-> TRUE, neg |-> FALSE, limbs |-> Limbs(s)]
  ELSE IF Len(s) > 1 /\ s[1] = "-" /\ IsDigits(Tail(s))
       THEN [ok |-> TRUE, neg |-> TRUE, limbs |-> Limbs(Tail(s))]
       ELSE [ok |-> FALSE, neg |-> FALSE, limbs |-> <<0>>]

Limb(a, i) == IF i <= Len(a) THEN a[i] ELSE 0

MaxLen2(a, b) == IF Len(a) > Len(b) THEN Len(a) ELSE Len(b)

GtLimbs(a, b) ==
  \E i \in 1..MaxLen2(a, b) :
    /\ Limb(a, i) > Limb(b, i)
    /\ \A j \in (i + 1)..MaxLen2(a, b) : Limb(a, j) = Limb(b, j)

IsZero(a) == \A i \in 1..Len(a) : a[i] = 0

\* a > b on BigInts
BigGt(a, b) ==
  IF a.neg /\ ~IsZero(a.limbs)
  THEN b.neg /\ ~IsZero(b.limbs) /\ GtLimbs(b.limbs, a.limbs)
  ELSE IF b.neg /\ ~IsZero(b.limbs) THEN TRUE
       ELSE GtLimbs(a.limbs, b.limbs)

(***************************************************************************)
(* securityService.ts: constants.                                          *)
(***************************************************************************)
\* maxUint256.toString()
maxUint256String ==
  "115792089237316195423570985008687907853269984665640564039457584007913129639935"

VERIFIED_CONTRACTS ==
  { <<"0", "x", "0", "0", "0", "0", "0", "0", "0", "0", "0", "0", "6", "c",
      "3", "8", "5", "2", "c", "b", "E", "f", "3", "e", "0", "8", "E", "8",
      "d", "F", "2", "8", "9", "1", "6", "9", "E", "d", "E", "5", "8", "1">>,
    <<"0", "x", "7", "B", "e", "8", "0", "7", "6", "f", "4", "E", "A", "4",
      "A", "4", "A", "D", "0", "8", "0", "7", "5", "C", "2", "5", "0", "8",
      "e", "4", "8", "1", "d", "6", "C", "9", "4", "6", "D", "1", "2", "b">> }

\* SUSPICIOUS_PATTERNS.UNLIMITED_APPROVAL.source: the text of the regular
\* expression, "0x" followed by 64 times "f"
UNLIMITED_APPROVAL_source == <<"0", "x">> \o Rep("f", 64)

\* SUSPICIOUS_PATTERNS.POTENTIAL_PHISHING, an alternation of literal words
\* matched without regard to case
POTENTIAL_PHISHING ==
  { <<"c", "l", "a", "i", "m">>, <<"a", "i", "r", "d", "r", "o", "p">>,
    <<"f", "r", "e", "e">>, <<"r", "e", "w", "a", "r", "d">>,
    <<"p", "r", "i", "z", "e">>, <<"g", "i", "v", "e", "a", "w", "a", "y">> }

\* Object.values(SUSPICIOUS_SIGNATURES)
SUSPICIOUS_SIGNATURES ==
  { <<"0", "x", "a", "9", "0", "5", "9", "c", "b", "b">>,
    <<"0", "x", "0", "9", "5", "e", "a", "7", "b", "3">>,
    <<"0", "x", "4", "0", "c", "1", "0", "f", "1", "9">>,
    <<"0", "x", "8", "1", "2", "9", "f", "c", "1", "c">> }

\* the maliciousPatterns table of checkKnownScams, in its order
maliciousPatterns ==
  << [pattern |-> { <<"m", "i", "n", "t">>, <<"c", "l", "a", "i", "m">>,
                    <<"r", "e", "w", "a", "r", "d">> },
      message |-> "Suspicious token minting or claiming"],
     [pattern |-> { <<"u", "p", "g", "r", "a", "d", "e">>,
                    <<"m", "i", "g", "r", "a", "t", "e">> },
      message |-> "Suspicious upgrade or migration"],
     [pattern |-> { <<"e", "m", "e", "r", "g", "e", "n", "c", "y">>,
                    <<"u", "r", "g", "e", "n", "t">> },
      message |-> "Suspicious emergency action"] >>

\* the thresholds of checkValueTransfer, in wei
thresholds ==
  [low    |-> BigInt(<<"1">> \o Rep("0", 18)),
   medium |-> BigInt(<<"1", "0">> \o Rep("0", 18)),
   high   |-> BigInt(<<"5", "0">> \o Rep("0", 18))]

(***************************************************************************)
(* Values a field of a transaction can hold: null or a string.             *)
(***************************************************************************)
Null == [null |-> TRUE, chars |-> <<>>]

Str(s) == [null |-> FALSE, chars |-> s]

\* the SecurityCheck a check resolves to, and a rejected promise
Check(safe, risk, message) ==
  [threw |-> FALSE, safe |-> safe, risk |-> risk, message |-> message]

Throw == [threw |-> TRUE]

(***************************************************************************)
(* securityService.ts: the checks that read the transaction alone.        *)
(***************************************************************************)
checkApprovalRisks(tx) ==
  IF tx.dataDecoded.present /\ tx.dataDecoded.method = "approve"
  THEN IF ~tx.dataDecoded.hasParameters \/ Len(tx.dataDecoded.parameters) < 2
       THEN Throw   \* TypeError: reading .value of undefined
       ELSE IF tx.dataDecoded.parameters[2].value = maxUint256String
            THEN Check(FALSE, "high",
                       "Infite Approval risk detected for token: "
                         \o tx.dataDecoded.parameters[1].value)
            ELSE Check(TRUE, "none", "No approval risks detected")
  ELSE Check(TRUE, "none", "No approval risks detected")

checkContractInteraction(tx) ==
  IF tx.data.null \/ tx.data.chars = <<>> \/ tx.data.chars = <<"0", "x">>
  THEN Check(TRUE, "none", "Simple ETH transfer - no contract interaction")
  ELSE IF ~tx.to.null /\ tx.to.chars \in VERIFIED_CONTRACTS
  THEN Check(TRUE, "none", "Interaction with verified contract")
  ELSE IF Slice(tx.data.chars, 0, 10) \in SUSPICIOUS_SIGNATURES
  THEN Check(FALSE, "high", "Suspicious contract interaction detected")
  ELSE IF Includes(tx.data.chars, UNLIMITED_APPROVAL_source)
  THEN Check(FALSE, "high", "Unlimited token approval detected")
  ELSE Check(TRUE, "low", "Contract interaction appears normal")

RECURSIVE firstMalicious(_, _)
firstMalicious(data, k) ==
  IF k > Len(maliciousPatterns)
  THEN Check(TRUE, "none", "No known scam patterns detected")
  ELSE IF RegexTestI(maliciousPatterns[k].pattern, data)
       THEN Check(FALSE, "high", maliciousPatterns[k].message)
       ELSE firstMalicious(data, k + 1)

checkKnownScams(tx) ==
  IF tx.data.null \/ tx.data.chars = <<>>
  THEN Check(TRUE, "none", "No known scam patterns detected")
  ELSE IF RegexTestI(POTENTIAL_PHISHING, tx.data.chars)
  THEN Check(FALSE, "critical", "Transaction matches known scam patterns")
  ELSE firstMalicious(tx.data.chars, 1)

\* a slip: the thresholds taken as inclusive
checkValueTransfer_inclusive(tx) ==
  LET value == BigInt(tx.value) IN
  IF ~value.ok THEN Throw
  ELSE IF ~BigGt(thresholds.high, value)
  THEN Check(FALSE, "high", "Very high value transfer detected (>50.0 ETH)")
  ELSE IF ~BigGt(thresholds.medium, value)
  THEN Check(FALSE, "medium", "High value transfer detected (>10.0 ETH)")
  ELSE IF ~BigGt(thresholds.low, value)
  THEN Check(TRUE, "low", "Moderate value transfer detected (>1.0 ETH)")
  ELSE Check(TRUE, "none", "Value transfer within safe limits")

checkValueTransfer(tx) ==
  LET value == BigInt(tx.value) IN
  IF ~value.ok THEN Throw   \* SyntaxError: cannot convert to a BigInt
  ELSE IF BigGt(value, thresholds.high)
  THEN Check(FALSE, "high", "Very high value transfer detected (>50.0 ETH)")
  ELSE IF BigGt(value, thresholds.medium)
  THEN Check(FALSE, "medium", "High value transfer detected (>10.0 ETH)")
  ELSE IF BigGt(value, thresholds.low)
  THEN Check(TRUE, "low", "Moderate value transfer detected (>1.0 ETH)")
  ELSE Check(TRUE, "none", "Value transfer within safe limits")

(***************************************************************************)
(* The transactions the coordination service can hold.  safeTxHash is the  *)
(* index of the transaction in this table.                                 *)
(***************************************************************************)
ADDR_PLAIN == <<"0", "x">> \o Rep("1", 40)

\* the one entry of the bundled utils/address.json, in checksum case
ADDR_SCAM_A == <<"0", "x", "A", "b", "C", "d", "E", "f">> \o Rep("0", 34)

ADDR_SCAM_A_LOWER == <<"0", "x", "a", "b", "c", "d", "e", "f">> \o Rep("0", 34)

\* an address the remote darklist names and the bundled list does not
ADDR_SCAM_B == <<"0", "x", "D", "e", "A", "d">> \o Rep("0", 36)

ADDR_SCAM_B_LOWER == <<"0", "x", "d", "e", "a", "d">> \o Rep("0", 36)

ADDR_SEAPORT ==
  <<"0", "x", "0", "0", "0", "0", "0", "0", "0", "0", "0", "0", "6", "c",
    "3", "8", "5", "2", "c", "b", "E", "f", "3", "e", "0", "8", "E", "8",
    "d", "F", "2", "8", "9", "1", "6", "9", "E", "d", "E", "5", "8", "1">>

\* the same contract, as an interface that does not checksum writes it
ADDR_SEAPORT_LOWER == toLowerCase(ADDR_SEAPORT)

WORD_ONE == Rep("0", 63) \o <<"1">>

DATA_EMPTY == <<"0", "x">>

\* a call of an unremarkable function with one argument
DATA_CALL == <<"0", "x", "1", "2", "3", "4", "5", "6", "7", "8">> \o WORD_ONE

\* transfer(address,uint256)
DATA_TRANSFER ==
  <<"0", "x", "a", "9", "0", "5", "9", "c", "b", "b">> \o WORD_ONE \o WORD_ONE

\* approve(address,uint256) of the maximal amount
DATA_APPROVE_MAX ==
  <<"0", "x", "0", "9", "5", "e", "a", "7", "b", "3">> \o WORD_ONE \o Rep("f", 64)

\* a call of an unremarkable function whose second argument is the maximal
\* uint256, in lower-case and in upper-case hexadecimal digits
DATA_CALL_MAX ==
  <<"0", "x", "1", "2", "3", "4", "5", "6", "7", "8">> \o WORD_ONE \o Rep("f", 64)

DATA_CALL_MAX_UPPER ==
  <<"0", "x", "1", "2", "3", "4", "5", "6", "7", "8">> \o WORD_ONE \o Rep("F", 64)

\* the text of the UNLIMITED_APPROVAL pattern itself
DATA_ALL_F == <<"0", "x">> \o Rep("f", 64)

\* call data that is not hexadecimal and carries a phishing keyword
DATA_CLAIM == <<"0", "x", "C", "l", "a", "i", "m">>

DATA_URGENT == <<"0", "x", "u", "r", "g", "e", "n", "t">>

ETH(digits) == digits \o Rep("0", 18)

NoDecoded ==
  [present |-> FALSE, method |-> "", hasParameters |-> FALSE, parameters |-> <<>>]

Decoded(method, parameters) ==
  [present |-> TRUE, method |-> method, hasParameters |-> TRUE,
   parameters |-> parameters]

DecodedNoParameters(method) ==
  [present |-> TRUE, method |-> method, hasParameters |-> FALSE,
   parameters |-> <<>>]

Tx(to, value, data, dataDecoded, executed) ==
  [to |-> to, value |-> value, data |-> data, dataDecoded |-> dataDecoded,
   executionDate |-> IF executed THEN Str(<<"2", "0", "2", "5">>) ELSE Null]

\* the decimal numeral of a natural number
DigitChars == <<"0", "1", "2", "3", "4", "5", "6", "7", "8", "9">>

RECURSIVE ToDigits(_)
ToDigits(n) ==
  IF n < 10 THEN <<DigitChars[n + 1]>>
  ELSE ToDigits(n \div 10) \o <<DigitChars[(n % 10) + 1]>>

\* tx.value of units ETH and offset wei (offset -1, 0 or 1), in wei
Wei(units, offset) ==
  CASE offset = 0 ->
         IF units = 0 THEN <<"0">> ELSE ToDigits(units) \o Rep("0", 18)
    [] offset = 1 ->
         IF units = 0 THEN <<"1">>
         ELSE ToDigits(units) \o Rep("0", 17) \o <<"1">>
    [] offset = -1 ->
         IF units = 1 THEN Rep("9", 18)
         ELSE ToDigits(units - 1) \o Rep("9", 18)

\* the amounts around which the value check is exercised, in ETH
ValueUnits == <<1, 2, 9, 10, 11, 49, 50, 51, 100, 1000000>>

\* amounts of 0 and 1 wei, and each of ValueUnits less one wei, exactly,
\* and plus one wei
ValueCases ==
  << [units |-> 0, offset |-> 0], [units |-> 0, offset |-> 1] >>
    \o [i \in 1..(3 * Len(ValueUnits)) |->
         [units |-> ValueUnits[((i - 1) \div 3) + 1], offset |-> ((i - 1) % 3) - 1]]

\* plain transfers of the amounts of ValueCases
ValueTransactions ==
  [i \in 1..Len(ValueCases) |->
     Tx(Str(ADDR_PLAIN), Wei(ValueCases[i].units, ValueCases[i].offset),
        Null, NoDecoded, FALSE)]

BaseTransactions ==
  << \* 1..6: the transactions the batches are made of
     Tx(Str(ADDR_PLAIN), <<"5">> \o Rep("0", 17), Null, NoDecoded, FALSE),
     Tx(Str(ADDR_PLAIN), <<"0">>, Str(DATA_EMPTY), NoDecoded, FALSE),
     Tx(Str(ADDR_PLAIN), ETH(<<"2", "0">>), Null, NoDecoded, FALSE),
     Tx(Str(ADDR_PLAIN), ETH(<<"5", "0">>) , Str(DATA_TRANSFER), NoDecoded, FALSE),
     Tx(Str(ADDR_PLAIN), <<"1", ".", "5">>, Null, NoDecoded, FALSE),
     Tx(Str(ADDR_PLAIN), <<"1">>, Null, NoDecoded, TRUE),
     \* 7..: transactions analysed on their own
     Tx(Str(ADDR_SCAM_A), <<"0">>, Null, NoDecoded, FALSE),
     Tx(Str(ADDR_SCAM_A_LOWER), <<"0">>, Null, NoDecoded, FALSE),
     Tx(Str(ADDR_SCAM_B), <<"0">>, Null, NoDecoded, FALSE),
     Tx(Str(ADDR_SCAM_B_LOWER), ETH(<<"2">>), Str(DATA_CALL), NoDecoded, FALSE),
     Tx(Null, <<"0">>, Null, NoDecoded, FALSE),
     Tx(Str(ADDR_PLAIN), <<"0">>, Str(DATA_APPROVE_MAX),
        Decoded("approve", << [value |-> "0xspender"],
                              [value |-> maxUint256String] >>), FALSE),
     Tx(Str(ADDR_PLAIN), <<"0">>, Str(DATA_CALL),
        Decoded("approve", << [value |-> "0xspender"], [value |-> "100"] >>),
        FALSE),
     Tx(Str(ADDR_PLAIN), <<"0">>, Str(DATA_CALL),
        Decoded("approve", << [value |-> "7"] >>), FALSE),
     Tx(Str(ADDR_PLAIN), <<"0">>, Str(DATA_CALL),
        DecodedNoParameters("approve"), FALSE),
     Tx(Str(ADDR_PLAIN), ETH(<<"5", "0">>), Str(DATA_CALL), NoDecoded, FALSE),
     Tx(Str(ADDR_PLAIN), <<"5">> \o Rep("0", 18) \o <<"1">>, Null, NoDecoded, FALSE),
     Tx(Str(ADDR_PLAIN), <<"0">>, Str(DATA_ALL_F), NoDecoded, FALSE),
     Tx(Str(ADDR_PLAIN), <<"0">>, Str(DATA_CLAIM), NoDecoded, FALSE),
     Tx(Str(ADDR_PLAIN), <<"0">>, Str(DATA_URGENT), NoDecoded, FALSE),
     Tx(Str(ADDR_SEAPORT), <<"0">>, Str(DATA_TRANSFER), NoDecoded, FALSE),
     Tx(Str(ADDR_SEAPORT_LOWER), <<"0">>, Str(DATA_TRANSFER), NoDecoded, FALSE),
     Tx(Str(ADDR_PLAIN), <<"0">>, Str(DATA_CALL_MAX), NoDecoded, FALSE),
     Tx(Str(ADDR_PLAIN), <<"0">>, Str(DATA_CALL_MAX_UPPER), NoDecoded, FALSE),
     Tx(Str(ADDR_PLAIN), <<"0">>, Str(DATA_CALL), NoDecoded, FALSE) >>

Transactions == BaseTransactions \o ValueTransactions

TxIds == 1..Len(Transactions)

\* the transactions of which batches of more than one are formed
BatchTxIds == 1..6

(***************************************************************************)
(* Bounds of the model.                                                    *)
(***************************************************************************)
\* the longest queue of pending transactions the service returns
MaxQueue == 3

\* the number of calls of AddressListService.initialize in one behaviour
MaxRefresh == 2

\* the longest queue of pending transactions when two requests overlap
MaxOverlapQueue == 1

(***************************************************************************)
(* State.                                                                  *)
(***************************************************************************)
VARIABLES
  darklist,             \* AddressListService.darklist
  lightlist,            \* AddressListService.lightlist
  lastUpdate,           \* AddressListService.lastUpdate: 0 is null
  initResult,           \* how the last call of initialize settled
  refreshes,            \* calls of initialize so far
  pending,              \* the coordination service: its queue, by safeTxHash
  confirmations,        \* the coordination service: confirmations accepted
  pc,                   \* per run: the await it is suspended at
  notExecutedTransactions,  \* per run: the filtered queue
  idx,                  \* per run: position of the for loop (1-based)
  securityChecks,       \* per run: the checks of the analysis in flight
  transactionsResults,  \* per run: the results pushed so far
  ret,                  \* per run: how the promise of the run settled
  analyzed,             \* per run: analyzeTransaction calls, in order
  signCalls,            \* per run: safeAcc.signHash calls, in order
  confirmCalls,         \* per run: apiKit.confirmTransaction calls, in order
  errors,               \* per run: Logger.error entries of the batch loop
  llmErrors,            \* per run: Logger.error entries of processSecurityReport
  handlerPc,            \* per request: the await its HTTP handler is suspended at
  res,                  \* per request: the HTTP response sent (status 0: none yet)
  onMessage             \* the request whose messageHandler the client holds

cacheVars == <<darklist, lightlist, lastUpdate, initResult, refreshes>>

serviceVars == <<pending, confirmations>>

runVars ==
  <<pc, notExecutedTransactions, idx, securityChecks, transactionsResults, ret,
    analyzed, signCalls, confirmCalls, errors, llmErrors>>

httpVars == <<handlerPc, res, onMessage>>

vars == <<cacheVars, serviceVars, runVars, httpVars>>

\* the requests that can be in progress
Runs == {"r1", "r2"}

(***************************************************************************)
(* utils/addressLists.ts                                                   *)
(***************************************************************************)
isDarklisted(address) == toLowerCase(address) \in darklist

isLightlisted(address) == toLowerCase(address) \in lightlist

Entry(address) == [address |-> Str(address)]

\* an entry without an address: entry.address is undefined
EntryNoAddress == [address |-> Null]

Response(data) == [ok |-> TRUE, data |-> data]

FetchFailed == [ok |-> FALSE, data |-> <<>>]

\* what the remote darklist can answer
DarklistResponses ==
  { FetchFailed,
    Response(<< Entry(ADDR_SCAM_B) >>),
    Response(<< Entry(ADDR_SCAM_A), Entry(ADDR_SCAM_B_LOWER) >>),
    Response(<< Entry(ADDR_SCAM_A), EntryNoAddress >>) }

\* what the remote lightlist can answer
LightlistResponses ==
  { FetchFailed,
    Response(<< >>),
    Response(<< Entry(ADDR_PLAIN) >>),
    Response(<< Entry(ADDR_SEAPORT), EntryNoAddress >>) }

wellFormed(data) == \A k \in 1..Len(data) : ~data[k].address.null

\* data.map((entry) => entry.address.toLowerCase()) as a Set
lowerSet(data) == { toLowerCase(data[k].address.chars) : k \in 1..Len(data) }

\* AddressListService.initialize, from the settling of Promise.all on
initialize(darklistResponse, lightlistResponse) ==
  /\ refreshes < MaxRefresh
  /\ refreshes' = refreshes + 1
  /\ IF ~darklistResponse.ok \/ ~lightlistResponse.ok
          \/ ~wellFormed(darklistResponse.data)
     THEN /\ UNCHANGED <<darklist, lightlist, lastUpdate>>
          /\ initResult' = "rejected"
     ELSE /\ darklist' = lowerSet(darklistResponse.data)
          /\ IF ~wellFormed(lightlistResponse.data)
             THEN /\ UNCHANGED <<lightlist, lastUpdate>>
                  /\ initResult' = "rejected"
             ELSE /\ lightlist' = lowerSet(lightlistResponse.data)
                  /\ lastUpdate' = refreshes + 1
                  /\ initResult' = "resolved"
  /\ UNCHANGED <<serviceVars, runVars, httpVars>>

(***************************************************************************)
(* securityService.ts: checkAddressPoisoning and analyzeTransaction.       *)
(***************************************************************************)
\* the bundled utils/address.json
blacklist == << ADDR_SCAM_A >>

checkAddressPoisoning(tx) ==
  IF tx.to.null
  THEN \* TypeError on tx.to.toLowerCase(), caught by the check
       Check(FALSE, "high", "Error checking address safety")
  ELSE LET toAddress == toLowerCase(tx.to.chars) IN
       IF \E k \in 1..Len(blacklist) :
            toLowerCase(blacklist[k]) = toLowerCase(toAddress)
       THEN Check(FALSE, "critical",
                  "Destination address is known to be malicious (MyEtherWallet darklist)")
       ELSE IF isLightlisted(toAddress)
       THEN Check(TRUE, "none",
                  "Destination address is verified (MyEtherWallet lightlist)")
       ELSE Check(TRUE, "none", "No address poisoning risks detected")

\* the keys of securityChecks, in the order of the object literal
CheckNames ==
  <<"addressPoisoning", "valueTransfer", "contractInteraction", "knownScams",
    "approvalRisks">>

\* the four checks that read the transaction alone, computed once per
\* transaction of the table
staticChecks ==
  [t \in TxIds |->
     [valueTransfer       |-> checkValueTransfer(Transactions[t]),
      contractInteraction |-> checkContractInteraction(Transactions[t]),
      knownScams          |-> checkKnownScams(Transactions[t]),
      approvalRisks       |-> checkApprovalRisks(Transactions[t])]]

\* what the Promise.all of analyzeTransaction settles to, per check
runChecks(t) ==
  [addressPoisoning    |-> checkAddressPoisoning(Transactions[t]),
   valueTransfer       |-> staticChecks[t].valueTransfer,
   contractInteraction |-> staticChecks[t].contractInteraction,
   knownScams          |-> staticChecks[t].knownScams,
   approvalRisks       |-> staticChecks[t].approvalRisks]

\* Promise.all rejects as soon as one of its promises rejects
anyThrew(checks) == \E k \in 1..Len(CheckNames) : checks[CheckNames[k]].threw

countRisk(checks, risk) ==
  Cardinality({k \in 1..Len(CheckNames) : checks[CheckNames[k]].risk = risk})

\* a slip: the verdict taken from the checks' own safe flags
isSafe_fromFlags(checks) ==
  \A k \in 1..Len(CheckNames) : checks[CheckNames[k]].safe

\* a slip: a medium risk made to gate the verdict as well
isSafe_mediumGates(checks) ==
  /\ countRisk(checks, "critical") = 0 /\ countRisk(checks, "high") = 0
  /\ countRisk(checks, "medium") = 0

isSafe(checks) ==
  countRisk(checks, "critical") = 0 /\ countRisk(checks, "high") = 0

(***************************************************************************)
(* agent.ts                                                                *)
(***************************************************************************)
\* what the completion request can come to: a text, no content, an error
LLMOutcomes ==
  { [ok |-> TRUE, content |-> "Low risk. Proceed."],
    [ok |-> TRUE, content |-> ""],
    [ok |-> FALSE, content |-> ""] }

processSecurityReport(llm) ==
  IF ~llm.ok THEN "Error generating security analysis."
  ELSE IF llm.content = "" THEN "No security analysis generated"
  ELSE llm.content

riskEmoji(risk) ==
  CASE risk = "none" -> "(ok)" [] risk = "low" -> "(green)"
    [] risk = "medium" -> "(yellow)" [] risk = "high" -> "(red)"
    [] risk = "critical" -> "(stop)"

\* the lines that generateSecuritySummary joins with newlines
generateSecuritySummary(checks) ==
  [k \in 1..Len(CheckNames) |->
     riskEmoji(checks[CheckNames[k]].risk) \o " " \o CheckNames[k] \o ": "
       \o checks[CheckNames[k]].message]

\* catch of processSecurityReport: Logger.error("llm", ...)
logReportFailure(log, llm, tx) ==
  IF llm.ok THEN log
  ELSE Append(log, [message |-> "Failed to generate security report", tx |-> tx])

\* a slip: the failure of the completion request rethrown, and the verdict
\* made to depend on it
Verdict_llmGates(checks, llm) ==
  [safe |-> isSafe(checks) /\ llm.ok, securityChecks |-> checks,
   aiAnalysis |-> processSecurityReport(llm),
   summary |-> generateSecuritySummary(checks)]

\* the object analyzeTransaction returns
Verdict(checks, llm) ==
  [safe |-> isSafe(checks), securityChecks |-> checks,
   aiAnalysis |-> processSecurityReport(llm),
   summary |-> generateSecuritySummary(checks)]

(***************************************************************************)
(* index.ts: analyzePendingTransactions.  A run is suspended at one await  *)
(* at a time; each action is the settling of that await and the code up    *)
(* to the next one.                                                        *)
(***************************************************************************)
NotSettled == [state |-> "pending"]

\* no response sent yet
NoResponse == [status |-> 0]

Rejected(error) == [state |-> "rejected", error |-> error]

Resolved(value) == [state |-> "resolved", value |-> value]

\* a slip: the filter left out
filterNotExecuted_all(results) == results

\* transactions.results.filter((tx) => tx.executionDate === null)
RECURSIVE filterNotExecuted(_)
filterNotExecuted(results) ==
  IF results = <<>> THEN <<>>
  ELSE IF Transactions[Head(results)].executionDate.null
       THEN <<Head(results)>> \o filterNotExecuted(Tail(results))
       ELSE filterNotExecuted(Tail(results))

\* notExecutedTransactions[notExecutedTransactions.length - 1]: 0 is undefined
lastOf(list) == IF list = <<>> THEN 0 ELSE list[Len(list)]

\* the return after the for loop
returnAllSafe(r, list) ==
  /\ pc' = [pc EXCEPT ![r] = "done"]
  /\ ret' = [ret EXCEPT ![r] =
               Resolved([safe |-> TRUE,
                         transactionsResults |-> transactionsResults[r],
                         lastTransaction |-> lastOf(list)])]

\* the for loop arriving at position k: either it is over, or the next
\* transaction is handed to runSecurityChecks, whose checks run at once
iterate(r, k) ==
  LET list == notExecutedTransactions[r] IN
  /\ idx' = [idx EXCEPT ![r] = k]
  /\ IF k > Len(list)
     THEN /\ returnAllSafe(r, list)
          /\ UNCHANGED <<securityChecks, analyzed>>
     ELSE LET checks == runChecks(list[k]) IN
          /\ analyzed' = [analyzed EXCEPT ![r] = Append(@, list[k])]
          /\ IF anyThrew(checks)
             THEN \* analyzeTransaction logs and rethrows; nothing catches it
                  /\ pc' = [pc EXCEPT ![r] = "done"]
                  /\ ret' = [ret EXCEPT ![r] = Rejected("analyzeTransaction")]
                  /\ UNCHANGED securityChecks
             ELSE /\ pc' = [pc EXCEPT ![r] = "processSecurityReport"]
                  /\ securityChecks' = [securityChecks EXCEPT ![r] = checks]
                  /\ UNCHANGED ret

reject(r, error) ==
  /\ pc' = [pc EXCEPT ![r] = "done"]
  /\ ret' = [ret EXCEPT ![r] = Rejected(error)]

\* POST /api/transaction-analysis arrives: the handler sets the headers and
\* calls analyzePendingTransactions, which runs to its first await
Request(r) ==
  /\ pc[r] = "idle"
  /\ handlerPc[r] = "idle"
  /\ pc' = [pc EXCEPT ![r] = "initializeSafeAccount"]
  /\ handlerPc' = [handlerPc EXCEPT ![r] = "analyzePendingTransactions"]
  /\ UNCHANGED <<cacheVars, serviceVars, res, onMessage, llmErrors,
                 notExecutedTransactions, idx,
                 securityChecks, transactionsResults, ret, analyzed, signCalls,
                 confirmCalls, errors>>

\* await initializeSafeAccount()
InitializeSafeAccountSettles(r, ok) ==
  /\ pc[r] = "initializeSafeAccount"
  /\ IF ok THEN pc' = [pc EXCEPT ![r] = "getPendingTransactions"] /\ UNCHANGED ret
     ELSE reject(r, "initializeSafeAccount")
  /\ UNCHANGED <<cacheVars, serviceVars, httpVars, llmErrors,
                 notExecutedTransactions, idx,
                 securityChecks, transactionsResults, analyzed, signCalls,
                 confirmCalls, errors>>

\* await apiKit.getPendingTransactions(safeAddress), and the filter
GetPendingTransactionsSettles(r, ok) ==
  /\ pc[r] = "getPendingTransactions"
  /\ IF ~ok
     THEN reject(r, "getPendingTransactions") /\ UNCHANGED notExecutedTransactions
     ELSE LET list == filterNotExecuted(pending) IN
          /\ notExecutedTransactions' = [notExecutedTransactions EXCEPT ![r] = list]
          /\ IF Len(list) # 0
             THEN pc' = [pc EXCEPT ![r] = "getSafeInfo"] /\ UNCHANGED ret
             ELSE returnAllSafe(r, list)
  /\ UNCHANGED <<cacheVars, serviceVars, httpVars, llmErrors,
                 idx, securityChecks,
                 transactionsResults, analyzed, signCalls, confirmCalls, errors>>

\* await apiKit.getSafeInfo(...), then the first iteration of the loop
GetSafeInfoSettles(r, ok) ==
  /\ pc[r] = "getSafeInfo"
  /\ IF ok THEN iterate(r, 1)
     ELSE reject(r, "getSafeInfo") /\ UNCHANGED <<idx, securityChecks, analyzed>>
  /\ UNCHANGED <<cacheVars, serviceVars, httpVars, llmErrors,
                 notExecutedTransactions,
                 transactionsResults, signCalls, confirmCalls, errors>>

\* a slip: signHash called before the verdict is looked at
afterVerdict_signsFirst(r, tx, verdict) ==
  /\ signCalls' = [signCalls EXCEPT ![r] = Append(@, tx)]
  /\ IF ~verdict.safe
     THEN /\ pc' = [pc EXCEPT ![r] = "done"]
          /\ ret' = [ret EXCEPT ![r] =
                       Resolved([safe |-> FALSE,
                                 securityChecks |-> verdict.securityChecks,
                                 summary |-> verdict.summary,
                                 aiAnalysis |-> verdict.aiAnalysis])]
     ELSE /\ pc' = [pc EXCEPT ![r] = "signHash"]
          /\ UNCHANGED ret

\* the test of safe: the early return, or the call of signHash
afterVerdict(r, tx, verdict) ==
  IF ~verdict.safe
  THEN /\ pc' = [pc EXCEPT ![r] = "done"]
       /\ ret' = [ret EXCEPT ![r] =
                    Resolved([safe |-> FALSE,
                              securityChecks |-> verdict.securityChecks,
                              summary |-> verdict.summary,
                              aiAnalysis |-> verdict.aiAnalysis])]
       /\ UNCHANGED signCalls
  ELSE /\ pc' = [pc EXCEPT ![r] = "signHash"]
       /\ signCalls' = [signCalls EXCEPT ![r] = Append(@, tx)]
       /\ UNCHANGED ret

\* await processSecurityReport(...) inside analyzeTransaction, the return of
\* the verdict, the push and the test of safe
ProcessSecurityReportSettles(r, llm) ==
  /\ pc[r] = "processSecurityReport"
  /\ LET tx == notExecutedTransactions[r][idx[r]]
         verdict == Verdict(securityChecks[r], llm)
     IN /\ llmErrors' = [llmErrors EXCEPT ![r] = logReportFailure(@, llm, tx)]
        /\ transactionsResults' =
             [transactionsResults EXCEPT ![r] = Append(@, verdict)]
        /\ afterVerdict(r, tx, verdict)
  /\ UNCHANGED <<cacheVars, serviceVars, httpVars,
                 notExecutedTransactions, idx,
                 securityChecks, analyzed, confirmCalls, errors>>

logSignFailure(r, tx) ==
  errors' = [errors EXCEPT ![r] =
               Append(@, [message |-> "Failed to sign transaction", tx |-> tx])]

\* a slip: no try/catch around signHash, so that its failure fails the batch
SignHashSettles_uncaught(r, ok) ==
  /\ pc[r] = "signHash"
  /\ LET tx == notExecutedTransactions[r][idx[r]] IN
     IF ok
     THEN /\ pc' = [pc EXCEPT ![r] = "confirmTransaction"]
          /\ confirmCalls' = [confirmCalls EXCEPT ![r] = Append(@, tx)]
          /\ UNCHANGED ret
     ELSE /\ reject(r, "signHash")
          /\ UNCHANGED confirmCalls
  /\ UNCHANGED <<cacheVars, serviceVars, httpVars, llmErrors,
                 notExecutedTransactions, idx,
                 securityChecks, analyzed, errors, transactionsResults, signCalls>>

\* a slip: confirmTransaction not awaited, the loop going on at once
SignHashSettles_noAwait(r, ok) ==
  /\ pc[r] = "signHash"
  /\ LET tx == notExecutedTransactions[r][idx[r]] IN
     /\ IF ok
        THEN confirmCalls' = [confirmCalls EXCEPT ![r] = Append(@, tx)]
               /\ UNCHANGED errors
        ELSE logSignFailure(r, tx) /\ UNCHANGED confirmCalls
     /\ iterate(r, idx[r] + 1)
  /\ UNCHANGED <<cacheVars, serviceVars, httpVars, llmErrors,
                 notExecutedTransactions,
                 transactionsResults, signCalls>>

\* await safeAcc.signHash(tx.safeTxHash)
SignHashSettles(r, ok) ==
  /\ pc[r] = "signHash"
  /\ LET tx == notExecutedTransactions[r][idx[r]] IN
     IF ok
     THEN /\ pc' = [pc EXCEPT ![r] = "confirmTransaction"]
          /\ confirmCalls' = [confirmCalls EXCEPT ![r] = Append(@, tx)]
          /\ UNCHANGED <<idx, securityChecks, ret, analyzed, errors>>
     ELSE /\ logSignFailure(r, tx)
          /\ iterate(r, idx[r] + 1)
          /\ UNCHANGED confirmCalls
  /\ UNCHANGED <<cacheVars, serviceVars, httpVars, llmErrors,
                 notExecutedTransactions,
                 transactionsResults, signCalls>>

\* await apiKit.confirmTransaction(tx.safeTxHash, signature.data)
ConfirmTransactionSettles(r, ok) ==
  /\ pc[r] = "confirmTransaction"
  /\ LET tx == notExecutedTransactions[r][idx[r]] IN
     IF ok
     THEN confirmations' = Append(confirmations, tx) /\ UNCHANGED errors
     ELSE logSignFailure(r, tx) /\ UNCHANGED confirmations
  /\ iterate(r, idx[r] + 1)
  /\ UNCHANGED <<cacheVars, pending, httpVars, llmErrors, notExecutedTransactions,
                 transactionsResults, signCalls, confirmCalls>>

(***************************************************************************)
(* index.ts: the handler of POST /api/transaction-analysis, the only       *)
(* caller of analyzePendingTransactions.                                   *)
(***************************************************************************)
\* response.lastTransaction: 0 is undefined
lastTransactionOf(response) ==
  IF "lastTransaction" \in DOMAIN response THEN response.lastTransaction ELSE 0

\* catch: res.status(500).json({ error: ... })
respond500(r) ==
  /\ res' = [res EXCEPT ![r] =
               [status |-> 500,
                body |-> [error |-> [message |-> "Failed to process message"]]]]
  /\ handlerPc' = [handlerPc EXCEPT ![r] = "ended"]

\* await analyzePendingTransactions(...) settles: the registration of the
\* message handler, the building of the message (which reads
\* response.lastTransaction.value) and the call of client.sendMessage
AnalyzePendingTransactionsSettles(r) ==
  /\ handlerPc[r] = "analyzePendingTransactions"
  /\ pc[r] = "done"
  /\ IF ret[r].state = "rejected"
     THEN respond500(r) /\ UNCHANGED onMessage
     ELSE /\ onMessage' = r
          /\ IF lastTransactionOf(ret[r].value) = 0
             THEN \* TypeError: reading .value of undefined
                  respond500(r)
             ELSE /\ handlerPc' = [handlerPc EXCEPT ![r] = "sendMessage"]
                  /\ UNCHANGED res
  /\ UNCHANGED <<cacheVars, serviceVars, runVars>>

\* await client.sendMessage(MARKET_SENTIMENT_AGENT_ID, message)
SendMessageSettles(r, ok) ==
  /\ handlerPc[r] = "sendMessage"
  /\ IF ok
     THEN handlerPc' = [handlerPc EXCEPT ![r] = "responsePromise"] /\ UNCHANGED res
     ELSE respond500(r)
  /\ UNCHANGED <<cacheVars, serviceVars, runVars, onMessage>>

\* a message of the market sentiment agent reaches the registered handler:
\* responsePromise resolves, the handler is reset and the response written
ResponsePromiseSettles(r) ==
  /\ handlerPc[r] = "responsePromise"
  /\ onMessage = r
  /\ onMessage' = "empty"
  /\ res' = [res EXCEPT ![r] =
               [status |-> 200,
                body |-> [response |-> ret[r].value,
                          marketSentimentResponse |-> "neutral",
                          done |-> FALSE]]]
  /\ handlerPc' = [handlerPc EXCEPT ![r] = "ended"]
  /\ UNCHANGED <<cacheVars, serviceVars, runVars>>

(***************************************************************************)
(* The system.  In Spec the service holds at most one pending transaction, *)
(* any of the table, and the cache is refreshed at any time.  In SpecBatch *)
(* the service holds a queue of up to MaxQueue transactions and the cache  *)
(* stays as constructed (nothing in index.ts calls initialize).  In        *)
(* SpecOverlap two requests are served over the same queue.                *)
(***************************************************************************)
\* sequences of n distinct transactions of the set S
DistinctSeqs(S, n) ==
  {q \in [1..n -> S] : \A i, j \in 1..n : i # j => q[i] # q[j]}

\* the queues of Spec
Queues == {<<>>} \cup {<<t>> : t \in TxIds}

\* the queues of SpecBatch
BatchQueues == UNION {DistinctSeqs(BatchTxIds, n) : n \in 0..MaxQueue}

InitWith(queues) ==
  /\ darklist = {}
  /\ lightlist = {}
  /\ lastUpdate = 0
  /\ initResult = "none"
  /\ refreshes = 0
  /\ pending \in queues
  /\ confirmations = <<>>
  /\ pc = [r \in Runs |-> "idle"]
  /\ notExecutedTransactions = [r \in Runs |-> <<>>]
  /\ idx = [r \in Runs |-> 0]
  /\ securityChecks = [r \in Runs |-> <<>>]
  /\ transactionsResults = [r \in Runs |-> <<>>]
  /\ ret = [r \in Runs |-> NotSettled]
  /\ analyzed = [r \in Runs |-> <<>>]
  /\ signCalls = [r \in Runs |-> <<>>]
  /\ confirmCalls = [r \in Runs |-> <<>>]
  /\ errors = [r \in Runs |-> <<>>]
  /\ llmErrors = [r \in Runs |-> <<>>]
  /\ handlerPc = [r \in Runs |-> "idle"]
  /\ res = [r \in Runs |-> NoResponse]
  /\ onMessage = "handleMessage"

Init == InitWith(Queues)

InitBatch == InitWith(BatchQueues)

\* the transactions of the queues of SpecOverlap: a safe one, an unsafe
\* one, one whose analysis throws and an executed one
OverlapTxIds == {1, 4, 5, 6}

\* the queues of SpecOverlap
OverlapQueues == UNION {DistinctSeqs(OverlapTxIds, n) : n \in 0..MaxOverlapQueue}

InitOverlap == InitWith(OverlapQueues)

Refresh ==
  \E d \in DarklistResponses, l \in LightlistResponses : initialize(d, l)

Batch(r) ==
  \/ Request(r)
  \/ \E ok \in BOOLEAN : InitializeSafeAccountSettles(r, ok)
  \/ \E ok \in BOOLEAN : GetPendingTransactionsSettles(r, ok)
  \/ \E ok \in BOOLEAN : GetSafeInfoSettles(r, ok)
  \/ \E llm \in LLMOutcomes : ProcessSecurityReportSettles(r, llm)
  \/ \E ok \in BOOLEAN : SignHashSettles(r, ok)
  \/ \E ok \in BOOLEAN : ConfirmTransactionSettles(r, ok)
  \/ AnalyzePendingTransactionsSettles(r)
  \/ \E ok \in BOOLEAN : SendMessageSettles(r, ok)
  \/ ResponsePromiseSettles(r)

Next == Refresh \/ Batch("r1")

Spec == Init /\ [][Next]_vars

NextBatch == Batch("r1")

SpecBatch == InitBatch /\ [][NextBatch]_vars

\* two requests for the same wallet: express starts the handler of each as
\* it arrives, and the two runs take turns at their awaits
NextOverlap == Batch("r1") \/ Batch("r2")

SpecOverlap == InitOverlap /\ [][NextOverlap]_vars

(***************************************************************************)
(* Properties.                                                             *)
(***************************************************************************)
\* the verdicts produced so far: the results pushed by the batch loop
VerdictsOf(r) == {transactionsResults[r][k] : k \in 1..Len(transactionsResults[r])}

risksOf(checks) == {checks[CheckNames[k]].risk : k \in 1..Len(CheckNames)}

\* C1: for every verdict analyzeTransaction returns, safe is true if and
\* only if every entry of its securityChecks has a risk among none, low and
\* medium (no entry is high or critical); the checks' own safe flags and
\* the report of the language model play no part.
C1_SafeIffNoHighOrCritical ==
  \A r \in Runs : \A v \in VerdictsOf(r) :
    /\ DOMAIN v.securityChecks = {CheckNames[k] : k \in 1..Len(CheckNames)}
    /\ v.safe <=> risksOf(v.securityChecks) \subseteq {"none", "low", "medium"}
    /\ v.safe <=> risksOf(v.securityChecks) \cap {"high", "critical"} = {}

\* C1 witness: both kinds of verdict have been returned, a safe one with a
\* check whose own flag is false, and an unsafe one.
C1_Witness ==
  /\ pc["r1"] = "signHash"
  /\ \E v \in VerdictsOf("r1") :
       /\ v.safe
       /\ v.securityChecks.valueTransfer.risk = "medium"
       /\ ~v.securityChecks.valueTransfer.safe
       /\ v.aiAnalysis = "Error generating security analysis."

Range(q) == {q[k] : k \in 1..Len(q)}

NoDuplicates(q) == \A i, j \in 1..Len(q) : i # j => q[i] # q[j]

\* the position of t in a list without duplicates (0: not in it)
PositionIn(list, t) ==
  IF t \in Range(list) THEN CHOOSE k \in 1..Len(list) : list[k] = t ELSE 0

\* the run evaluated t, and safe
EvaluatedSafe(r, t) ==
  \E k \in 1..Len(transactionsResults[r]) :
    analyzed[r][k] = t /\ transactionsResults[r][k].safe

\* a failure to sign or confirm t was logged by the run
FailureLogged(r, t) ==
  \E k \in 1..Len(errors[r]) :
    errors[r][k] = [message |-> "Failed to sign transaction", tx |-> t]

\* the sign/confirm attempt for t is over: confirmed, or failed and logged
AttemptOver(r, t) == t \in Range(confirmations) \/ FailureLogged(r, t)

\* the run returned at an unsafe transaction
Halted(r) == ret[r].state = "resolved" /\ ~ret[r].value.safe

\* C2: a signature is computed and a confirmation submitted only for a
\* transaction that the pending query returned with executionDate null and
\* that this run evaluated safe; each transaction at most once per run.
C2_OnlySafeUnexecutedConfirmed ==
  \A r \in Runs :
    /\ \A t \in Range(signCalls[r]) \cup Range(confirmCalls[r]) :
         /\ t \in Range(pending)
         /\ Transactions[t].executionDate.null
         /\ EvaluatedSafe(r, t)
    /\ Range(confirmCalls[r]) \subseteq Range(signCalls[r])
    /\ NoDuplicates(signCalls[r])
    /\ NoDuplicates(confirmCalls[r])
    /\ Range(confirmations) \subseteq UNION {Range(confirmCalls[q]) : q \in Runs}
    /\ NoDuplicates(confirmations)

\* C2 witness: a run over a queue with an executed transaction and an
\* unsafe one has ended, having confirmed the safe one.
C2_Witness ==
  /\ pending = <<6, 1, 4>>
  /\ pc["r1"] = "done"
  /\ confirmations = <<1>>

\* C3: when the run returns at the first unsafe transaction Tk, it has
\* evaluated exactly T1..Tk, called signHash for exactly T1..T(k-1) (each
\* of them confirmed, or its failure logged), and has neither evaluated nor
\* signed any later transaction; the run is over.
C3_HaltOnFirstUnsafe ==
  \A r \in Runs :
    Halted(r) =>
      LET list == notExecutedTransactions[r]
          k == Len(analyzed[r])
      IN /\ pc[r] = "done"
         /\ k >= 1 /\ k <= Len(list)
         /\ analyzed[r] = SubSeq(list, 1, k)
         /\ Len(transactionsResults[r]) = k
         /\ ~transactionsResults[r][k].safe
         /\ \A j \in 1..(k - 1) : transactionsResults[r][j].safe
         /\ signCalls[r] = SubSeq(list, 1, k - 1)
         /\ \A j \in 1..(k - 1) : AttemptOver(r, list[j])
         /\ Range(confirmCalls[r]) \cup Range(confirmations)
              \subseteq Range(SubSeq(list, 1, k - 1))

\* C3 witness: [T1 (safe), T4 (unsafe), T3 (safe)]: T1 confirmed, the run
\* returned at T4, T3 untouched.
C3_Witness ==
  /\ notExecutedTransactions["r1"] = <<1, 4, 3>>
  /\ Halted("r1")
  /\ confirmations = <<1>>
  /\ analyzed["r1"] = <<1, 4>>

\* analyses begun and not yet over, and sign/confirm attempts begun and
\* not yet over
InEvaluation(r) ==
  {k \in 1..Len(analyzed[r]) :
     k > Len(transactionsResults[r]) /\ ret[r].state # "rejected"}

InSigning(r) ==
  {k \in 1..Len(signCalls[r]) : ~AttemptOver(r, signCalls[r][k])}

\* C4: the transactions are evaluated in the order the service returned
\* them; the evaluation of one begins only after the one before it was
\* evaluated safe and its sign/confirm attempt is over (confirmed, or
\* failed and logged); at no time are two transactions in evaluation or
\* signing.
C4_SequentialInOrder ==
  \A r \in Runs :
    LET list == notExecutedTransactions[r]
        k == Len(analyzed[r])
    IN /\ \A i, j \in 1..Len(list) :
            i < j => /\ PositionIn(pending, list[i]) > 0
                     /\ PositionIn(pending, list[i]) < PositionIn(pending, list[j])
       /\ k <= Len(list)
       /\ analyzed[r] = SubSeq(list, 1, k)
       /\ \A j \in 1..(k - 1) :
            /\ j <= Len(transactionsResults[r])
            /\ transactionsResults[r][j].safe
            /\ j <= Len(signCalls[r])
            /\ signCalls[r][j] = list[j]
            /\ AttemptOver(r, list[j])
       /\ Cardinality(InEvaluation(r)) + Cardinality(InSigning(r)) <= 1

\* C4 witness: the third transaction is in evaluation after the first was
\* confirmed and the signing of the second failed.
C4_Witness ==
  /\ pending = <<3, 2, 1>>
  /\ pc["r1"] = "processSecurityReport"
  /\ analyzed["r1"] = <<3, 2, 1>>
  /\ confirmations = <<3>>
  /\ FailureLogged("r1", 2)

\* C5, as stated: the value returned at an unsafe transaction carries safe,
\* securityChecks, summary and aiAnalysis of that transaction together
\* with the results of the safe transactions signed before it.
C5_HaltReturnsPartialResults ==
  \A r \in Runs :
    Halted(r) =>
      /\ {"safe", "securityChecks", "summary", "aiAnalysis"}
           \subseteq DOMAIN ret[r].value
      /\ Len(signCalls[r]) > 0 =>
           /\ "transactionsResults" \in DOMAIN ret[r].value
           /\ \A j \in 1..Len(signCalls[r]) :
                \E i \in 1..Len(ret[r].value.transactionsResults) :
                  ret[r].value.transactionsResults[i] = transactionsResults[r][j]

\* C6, as stated: no check throws, so analyzeTransaction completes for
\* every transaction it is given and never fails the batch.
C6_ChecksAbsorbFailures ==
  \A r \in Runs :
    /\ \A t \in Range(analyzed[r]) : ~anyThrew(runChecks(t))
    /\ ret[r].state = "rejected" => ret[r].error # "analyzeTransaction"

\* C7: a failure of signHash or confirmTransaction for a safe transaction
\* is logged and does not fail the batch: the loop goes on with the next
\* unexecuted transaction in order, and a batch whose transactions were all
\* evaluated safe returns safe = true with every transaction evaluated.
C7_SignFailureDoesNotFailBatch ==
  \A r \in Runs :
    LET list == notExecutedTransactions[r] IN
    /\ \A k \in 1..Len(errors[r]) :
         LET j == PositionIn(list, errors[r][k].tx) IN
         /\ j > 0
         /\ errors[r][k].tx \in Range(signCalls[r])
         /\ j < Len(list) => Len(analyzed[r]) > j /\ analyzed[r][j + 1] = list[j + 1]
         /\ j = Len(list) => ret[r].state = "resolved" /\ ret[r].value.safe
    /\ \A j \in 1..Len(signCalls[r]) :
         (j < Len(analyzed[r]) \/ pc[r] = "done") => AttemptOver(r, signCalls[r][j])
    /\ ret[r].state = "rejected" =>
         ret[r].error \in {"initializeSafeAccount", "getPendingTransactions",
                           "getSafeInfo", "analyzeTransaction"}
    /\ ( /\ pc[r] = "done"
         /\ ret[r].state = "resolved"
         /\ \A v \in VerdictsOf(r) : v.safe )
       => /\ ret[r].value.safe
          /\ analyzed[r] = list
          /\ Len(transactionsResults[r]) = Len(list)
          /\ ret[r].value.transactionsResults = transactionsResults[r]
          /\ ret[r].value.lastTransaction = lastOf(list)

\* C7 witness: of three safe transactions the signing of the first and the
\* confirmation of the second failed, the third was confirmed, and the run
\* returned safe = true with three results.
C7_Witness ==
  /\ notExecutedTransactions["r1"] = <<2, 3, 1>>
  /\ Len(errors["r1"]) = 2
  /\ confirmCalls["r1"] = <<3, 1>>
  /\ confirmations = <<1>>
  /\ ret["r1"].state = "resolved"
  /\ ret["r1"].value.safe
  /\ Len(ret["r1"].value.transactionsResults) = 3

\* C8, as stated: in the results of a run, the entry of a transaction whose
\* sign/confirm attempt failed differs from the entry of one whose
\* confirmation succeeded.
C8_SignFailureSurfacesInResult ==
  \A r \in Runs :
    \A i, j \in 1..Len(transactionsResults[r]) :
      ( /\ analyzed[r][i] \in Range(confirmations)
        /\ FailureLogged(r, analyzed[r][j]) )
      => transactionsResults[r][i] # transactionsResults[r][j]

\* C9, as stated: whenever analyzeTransaction is given a transaction whose
\* destination isDarklisted at that moment, addressPoisoning is critical
\* (and the verdict unsafe).
C9_DarklistedIsCritical ==
  [][\A r \in Runs :
       ( /\ analyzed'[r] # analyzed[r]
         /\ pc'[r] = "processSecurityReport"
         /\ ~Transactions[notExecutedTransactions[r][idx'[r]]].to.null
         /\ isDarklisted(Transactions[notExecutedTransactions[r][idx'[r]]].to.chars) )
       => /\ securityChecks'[r].addressPoisoning.risk = "critical"
          /\ ~isSafe(securityChecks'[r])]_vars

\* C10, as stated: once a load has succeeded, a failing call of initialize
\* leaves the darklist and the lightlist as they were.
C10_FailedRefreshKeepsSnapshot ==
  [][( /\ lastUpdate # 0
       /\ refreshes' # refreshes
       /\ initResult' = "rejected" )
     => darklist' = darklist /\ lightlist' = lightlist]_vars

\* a failure of the completion request for t was logged by the run
ReportFailureLogged(r, t) ==
  \E k \in 1..Len(llmErrors[r]) :
    llmErrors[r][k] = [message |-> "Failed to generate security report", tx |-> t]

\* C11: the report of the language model is advisory only: whatever the
\* completion request comes to (a text, no content, a failure),
\* analyzeTransaction returns a verdict whose safe, securityChecks and
\* summary are those computed from the checks alone; when the request
\* failed, aiAnalysis is the fixed fallback string; and signHash is called
\* exactly when the checks are safe.
C11_LLMAdvisoryOnly ==
  [][\A r \in Runs :
       (pc[r] = "processSecurityReport" /\ pc'[r] # pc[r]) =>
         LET checks == securityChecks[r]
             n == Len(transactionsResults[r])
             v == transactionsResults'[r][n + 1]
         IN /\ Len(transactionsResults'[r]) = n + 1
            /\ v.securityChecks = checks
            /\ v.safe = isSafe(checks)
            /\ v.summary = generateSecuritySummary(checks)
            /\ \A l \in LLMOutcomes :
                 /\ Verdict(checks, l).safe = v.safe
                 /\ Verdict(checks, l).securityChecks = v.securityChecks
                 /\ Verdict(checks, l).summary = v.summary
            /\ llmErrors'[r] # llmErrors[r] =>
                 v.aiAnalysis = "Error generating security analysis."
            /\ ret'[r].state # "rejected"
            /\ signCalls'[r] # signCalls[r] <=> isSafe(checks)
            /\ pc'[r] = "signHash" <=> isSafe(checks)]_vars

\* C11 witness: the completion request failed for a safe transaction, whose
\* verdict carries the fallback string, and signHash was called for it.
C11_Witness ==
  /\ pending = <<2>>
  /\ ReportFailureLogged("r1", 2)
  /\ transactionsResults["r1"][1].safe
  /\ transactionsResults["r1"][1].aiAnalysis = "Error generating security analysis."
  /\ signCalls["r1"] = <<2>>
  /\ pc["r1"] = "signHash"

\* C12, as stated: whenever a batch run of a request returns at an unsafe
\* transaction, the response the caller receives carries the securityChecks
\* and the summary of that transaction, and is not an error response.
C12_HaltReportedWithDetail ==
  \A r \in Runs :
    (Halted(r) /\ handlerPc[r] = "ended") =>
      LET v == transactionsResults[r][Len(transactionsResults[r])] IN
      /\ res[r].status = 200
      /\ "response" \in DOMAIN res[r].body
      /\ res[r].body.response.securityChecks = v.securityChecks
      /\ res[r].body.response.summary = v.summary

\* the amount of transaction t when it is one of ValueTransactions
ValueCaseOf(t) == ValueCases[t - Len(BaseTransactions)]

\* units ETH and offset wei exceed k ETH
ExceedsUnits(c, k) == c.units > k \/ (c.units = k /\ c.offset > 0)

\* C13: the thresholds of valueTransfer are exclusive: for a value of
\* v wei, v <= 1 ETH gives none, 1 ETH < v <= 10 ETH gives low,
\* 10 ETH < v <= 50 ETH gives medium and v > 50 ETH gives high; a value
\* equal to a threshold does not escalate and one wei more does.
C13_ThresholdsExclusive ==
  \A r \in Runs : \A k \in 1..Len(transactionsResults[r]) :
    analyzed[r][k] > Len(BaseTransactions) =>
      LET c == ValueCaseOf(analyzed[r][k])
          risk == transactionsResults[r][k].securityChecks.valueTransfer.risk
      IN /\ risk = "none" <=> ~ExceedsUnits(c, 1)
         /\ risk = "low" <=> ExceedsUnits(c, 1) /\ ~ExceedsUnits(c, 10)
         /\ risk = "medium" <=> ExceedsUnits(c, 10) /\ ~ExceedsUnits(c, 50)
         /\ risk = "high" <=> ExceedsUnits(c, 50)

\* C13 witness: a transfer of exactly 50 ETH was evaluated medium.
C13_Witness ==
  \E k \in 1..Len(transactionsResults["r1"]) :
    /\ analyzed["r1"][k] > Len(BaseTransactions)
    /\ ValueCaseOf(analyzed["r1"][k]) = [units |-> 50, offset |-> 0]
    /\ transactionsResults["r1"][k].securityChecks.valueTransfer.risk = "medium"

\* a run of analyzePendingTransactions has begun and has not returned
InProgress(r) == pc[r] \notin {"idle", "done"}

\* C14, as stated: at no time are two runs of analyzePendingTransactions in
\* progress together, so that no pending transaction is under evaluation
\* or confirmation by two runs at once.
C14_OneBatchAtATime ==
  \A r, q \in Runs : r # q => ~(InProgress(r) /\ InProgress(q))

\* u is t with the letters of its destination in another case
SameButCase(t, u) ==
  /\ ~Transactions[t].to.null /\ ~Transactions[u].to.null
  /\ toLowerCase(Transactions[t].to.chars) = toLowerCase(Transactions[u].to.chars)
  /\ [Transactions[t] EXCEPT !.to = Null] = [Transactions[u] EXCEPT !.to = Null]

\* the destination is in the allowlist of verified contracts, whatever the
\* case it is written in
VerifiedInAnyCase(tx) ==
  /\ ~tx.to.null
  /\ \E a \in VERIFIED_CONTRACTS : toLowerCase(a) = toLowerCase(tx.to.chars)

\* the transaction carries call data
HasCallData(tx) ==
  ~tx.data.null /\ tx.data.chars # <<>> /\ tx.data.chars # <<"0", "x">>

\* C15, as stated: the checks of a transaction are those of the same
\* transaction with its destination written in another letter case, and
\* contractInteraction is none for a call to a destination of the
\* allowlist of verified contracts whichever case it is written in.
C15_AddressCaseIrrelevant ==
  [][\A r \in Runs :
       ( /\ analyzed'[r] # analyzed[r]
         /\ pc'[r] = "processSecurityReport" )
       => LET t == notExecutedTransactions[r][idx'[r]] IN
          /\ \A u \in TxIds : SameButCase(t, u) => runChecks(u) = securityChecks'[r]
          /\ (HasCallData(Transactions[t]) /\ VerifiedInAnyCase(Transactions[t]))
               => securityChecks'[r].contractInteraction.risk = "none"]_vars

\* the call data holds a 32-byte word of all f digits, in any letter case
EmbedsUnlimitedWord(data) == Includes(toLowerCase(data), Rep("f", 64))

\* C16, as stated: for a transaction with call data whose destination is
\* not in the allowlist, contractInteraction is high when the selector is
\* one of the suspicious selectors or the call data embeds a 32-byte word
\* of all f digits (anywhere, in any letter case), and low otherwise.
C16_ContractInteractionEscalation ==
  \A r \in Runs : \A k \in 1..Len(transactionsResults[r]) :
    LET tx == Transactions[analyzed[r][k]]
        risk == transactionsResults[r][k].securityChecks.contractInteraction.risk
    IN (HasCallData(tx) /\ ~VerifiedInAnyCase(tx)) =>
         IF \/ Slice(tx.data.chars, 0, 10) \in SUSPICIOUS_SIGNATURES
            \/ EmbedsUnlimitedWord(tx.data.chars)
         THEN risk = "high"
         ELSE risk = "low"

\* the only finding of the checks is a valueTransfer of risk medium
OnlyMediumValue(checks) ==
  /\ checks.valueTransfer.risk = "medium"
  /\ \A k \in 1..Len(CheckNames) :
       CheckNames[k] # "valueTransfer" => checks[CheckNames[k]].risk = "none"

\* C17: the safe flags of the checks do not gate: a transaction whose only
\* finding is a valueTransfer of risk medium (whose own flag is false) gets
\* a verdict with safe = true, signHash is called for it and, once the
\* attempt is over, it is confirmed unless signing or confirming failed
\* and was logged; and every check result of risk high or critical has
\* its own flag false.
C17_SafeFlagsDoNotGate ==
  \A r \in Runs : \A k \in 1..Len(transactionsResults[r]) :
    LET v == transactionsResults[r][k]
        t == analyzed[r][k]
    IN /\ \A n \in 1..Len(CheckNames) :
            v.securityChecks[CheckNames[n]].risk \in {"high", "critical"}
              => ~v.securityChecks[CheckNames[n]].safe
       /\ OnlyMediumValue(v.securityChecks) =>
            /\ ~v.securityChecks.valueTransfer.safe
            /\ v.safe
            /\ t \in Range(signCalls[r])
            /\ pc[r] = "confirmTransaction" => t \in Range(confirmCalls[r])
            /\ pc[r] = "done" => AttemptOver(r, t)
            /\ ret[r].state = "resolved" => ret[r].value.safe

\* C17 witness: a transfer of 20 ETH, whose valueTransfer is medium with
\* its flag false, was evaluated safe, signed and confirmed, and the run
\* returned safe = true.
C17_Witness ==
  /\ pending = <<3>>
  /\ confirmations = <<3>>
  /\ ret["r1"].state = "resolved"
  /\ ret["r1"].value.safe
  /\ OnlyMediumValue(transactionsResults["r1"][1].securityChecks)
  /\ ~transactionsResults["r1"][1].securityChecks.valueTransfer.safe
  /\ transactionsResults["r1"][1].safe

====
